---- MODULE Spec2Model ----
(***************************************************************************)
(* Model of scripts/deploy.py: the ordered deployment of MyToken,          *)
(* DataReview and DataBundle against a local node, the revert diagnostic   *)
(* and the address registry file contract_addresses.json.                  *)
(*                                                                         *)
(* One process (the script) runs at a time; the node mines transactions    *)
(* on its own.  The script may be started again after it has ended, the    *)
(* node and the working directory keeping their state.                     *)
(***************************************************************************)
EXTENDS Integers, Sequences, FiniteSets, TLC

\* ------------------------------------------------------------------ bounds

\* Number of times the script is started against the same node.
MaxRuns == 2

\* ------------------------------------------------------- program constants

\* deploy.py:66  tx_build['gas'] = estimated_gas + 100000
GasBuffer == 100000

\* deploy.py:106  initial_supply = 1_000_000 * (10**18)
SupplyTokens == 1000000
SupplyDecimals == 18

\* deploy.py:82-83  the selector has ten characters, revert_data[10:]
SelectorLen == 10

\* deploy.py:98  exit(1)
FatalStatus == 1

\* The three contracts in the order main() deploys them (deploy.py:105-129).
Names == <<"MyToken", "DataReview", "DataBundle">>

NameSet == {Names[i] : i \in 1..Len(Names)}

\* w3.eth.default_account = w3.eth.accounts[0]  (deploy.py:10)
default_account == "account0"

\* The file contract_addresses.json when it does not exist.
Absent == [exists |-> FALSE, entries |-> {}]

\* open(..., 'w') and json.dump of a dict: the file exists and holds the dict's
\* key/value pairs and nothing else (what was there before is gone).
JsonDump(dict) == [exists |-> TRUE, entries |-> {<<k, dict[k]>> : k \in DOMAIN dict}]

\* No address: a handle not yet assigned, a receipt without contractAddress.
NoAddress == 0

VARIABLES
    abiFile,     \* build/<name>.json : "ok", "missing", "malformed", "invalid_abi", "unreadable"
    binFile,     \* build/<name>.bin  : "ok", "missing"
    registry,    \* the file contract_addresses.json: its key/value pairs, or Absent
    chain,       \* the node: the transactions it was sent, in order, with their receipts
    run,         \* which start of the script this is
    pc,          \* where the script is
    cur,         \* index in Names of the contract main() is working on
    handles,     \* token_contract, data_review_contract, data_bundle_contract: their .address
    tx_build,    \* deploy_contract's tx_build
    tx_hash,     \* deploy_contract's tx_hash: the index of the transaction in chain
    trace,       \* the response of debug_traceTransaction read by the diagnostic
    console,     \* what the script has printed in this run
    exitStatus   \* exit status of the process, -1 while it runs

vars == <<abiFile, binFile, registry, chain, run, pc, cur, handles, tx_build,
          tx_hash, trace, console, exitStatus>>

env == <<abiFile, binFile>>

\* ---------------------------------------------------- Python's exit status

\* exit(*args) raises SystemExit: called with no argument it ends the process
\* with status 0, called with an integer it ends it with that status.
SystemExitStatus(args) == IF args = <<>> THEN 0 ELSE args[1]

\* An exception nothing catches ends the interpreter with status 1.
UncaughtExceptionStatus == SystemExitStatus(<<1>>)

\* -------------------------------------------- initial_supply (deploy.py:106)

RECURSIVE Zeros(_)
Zeros(n) == IF n = 0 THEN <<>> ELSE <<0>> \o Zeros(n - 1)

\* The decimal digits of a natural number, most significant first.
RECURSIVE DigitsOf(_)
DigitsOf(n) == IF n < 10 THEN <<n>> ELSE DigitsOf(n \div 10) \o <<n % 10>>

\* 1_000_000 * (10**18) as its decimal digits (the value exceeds a machine
\* word): multiplying by 10**k appends k zeros.
initial_supply == DigitsOf(SupplyTokens) \o Zeros(SupplyDecimals)

\* ------------------------------------- the revert payload (deploy.py:80-86)

\* '0x08c379a0', the selector of Error(string)  (deploy.py:82)
ErrorSelector == <<"0", "x", "0", "8", "c", "3", "7", "9", "a", "0">>

\* str.startswith
StartsWith(s, prefix) ==
    /\ Len(s) >= Len(prefix)
    /\ SubSeq(s, 1, Len(prefix)) = prefix

HexDigits == {"0", "1", "2", "3", "4", "5", "6", "7", "8", "9",
              "a", "b", "c", "d", "e", "f"}

HexValue(c) ==
    CASE c = "0" -> 0 [] c = "1" -> 1 [] c = "2" -> 2 [] c = "3" -> 3
      [] c = "4" -> 4 [] c = "5" -> 5 [] c = "6" -> 6 [] c = "7" -> 7
      [] c = "8" -> 8 [] c = "9" -> 9 [] c = "a" -> 10 [] c = "b" -> 11
      [] c = "c" -> 12 [] c = "d" -> 13 [] c = "e" -> 14 [] c = "f" -> 15

\* bytes.fromhex raises ValueError unless the text is pairs of hex digits
\* (white space between the pairs, which it skips, is not in the payloads here).
FromHexRaises(h) ==
    \/ Len(h) % 2 # 0
    \/ \E i \in 1..Len(h) : h[i] \notin HexDigits

\* bytes.fromhex on a text it accepts: one byte per pair of digits.
FromHex(h) ==
    [i \in 1..(Len(h) \div 2) |-> 16 * HexValue(h[2 * i - 1]) + HexValue(h[2 * i])]

\* bytes.decode('utf-8', errors='ignore') on bytes that hold no valid
\* multi-byte sequence: every byte above 0x7f is dropped, the rest are kept.
IsAscii(b) == b < 128
DecodeIgnore(bytes) == SelectSeq(bytes, IsAscii)

\* str.strip('\x00'): NUL characters removed from both ends.
RECURSIVE StripNul(_)
StripNul(s) ==
    IF s = <<>> THEN s
    ELSE IF Head(s) = 0 THEN StripNul(Tail(s))
    ELSE IF s[Len(s)] = 0 THEN StripNul(SubSeq(s, 1, Len(s) - 1))
    ELSE s

\* revert_data[10:]
AfterSelector(revert_data) == SubSeq(revert_data, SelectorLen + 1, Len(revert_data))

\* deploy.py:83
RevertReason(revert_data) == StripNul(DecodeIgnore(FromHex(AfterSelector(revert_data))))

\* A response of debug_traceTransaction, as the diagnostic reads it:
\*   raises         the request raised, or the response is no mapping
\*   hasReturnValue 'returnValue' in trace;   returnValue  trace['returnValue']
\*   hasError       'error' in trace
\*   hasMessage     'message' in trace['error'];  message  trace['error']['message']
TraceOf(raises, hasRV, rv, hasErr, hasMsg, msg) ==
    [raises |-> raises, hasReturnValue |-> hasRV, returnValue |-> rv,
     hasError |-> hasErr, hasMessage |-> hasMsg, message |-> msg]

NoTrace == TraceOf(FALSE, FALSE, <<>>, FALSE, FALSE, "")

Line(tag, arg) == [tag |-> tag, arg |-> arg]

\* Mutant of DiagnosticOutput: the payload is compared with the selector
\* without its 0x prefix.
DiagnosticOutput_BareSelector(t) ==
    IF t.raises THEN <<Line("trace_failed", <<>>)>>
    ELSE IF t.hasReturnValue /\ t.returnValue # <<>> THEN
        IF StartsWith(t.returnValue, SubSeq(ErrorSelector, 3, SelectorLen)) THEN
            IF FromHexRaises(AfterSelector(t.returnValue))
            THEN <<Line("trace_failed", <<>>)>>
            ELSE <<Line("revert_reason", RevertReason(t.returnValue))>>
        ELSE <<Line("raw_revert_data", t.returnValue)>>
    ELSE IF t.hasError /\ t.hasMessage THEN <<Line("error_message", t.message)>>
    ELSE <<>>

\* deploy.py:78-90: what the diagnostic prints for a trace response.
DiagnosticOutput(t) ==
    IF t.raises THEN <<Line("trace_failed", <<>>)>>
    ELSE IF t.hasReturnValue /\ t.returnValue # <<>> THEN
        IF StartsWith(t.returnValue, ErrorSelector) THEN
            IF FromHexRaises(AfterSelector(t.returnValue))
            THEN <<Line("trace_failed", <<>>)>>
            ELSE <<Line("revert_reason", RevertReason(t.returnValue))>>
        ELSE <<Line("raw_revert_data", t.returnValue)>>
    ELSE IF t.hasError /\ t.hasMessage THEN <<Line("error_message", t.message)>>
    ELSE <<>>

\* ------------------------------------------------------------- environment

AbiStates == {"ok", "missing", "malformed", "invalid_abi", "unreadable"}
BinStates == {"ok", "missing"}

\* Gas the node may answer to estimate_gas.
GasEstimates == {1500000}

\* Return payloads a trace may carry, as their characters.
PayloadHi       == ErrorSelector \o <<"4", "8", "6", "9">>
PayloadPadded   == ErrorSelector \o <<"0", "0", "4", "8", "0", "0">>
PayloadOddHex   == ErrorSelector \o <<"4", "8", "6">>
PayloadNotHex   == ErrorSelector \o <<"z", "z">>
PayloadPanic    == <<"0", "x", "4", "e", "4", "8", "7", "b", "7", "1">>
PayloadNoPrefix == <<"0", "8", "c", "3", "7", "9", "a", "0", "4", "8", "6", "9">>
PayloadShort    == <<"0", "x", "0", "8", "c", "3">>

Payloads == {ErrorSelector, PayloadHi, PayloadPadded, PayloadOddHex, PayloadNotHex,
             PayloadPanic, PayloadNoPrefix, PayloadShort}

Messages == {"VM Exception while processing transaction: revert"}

TraceResponses ==
    {TraceOf(TRUE, FALSE, <<>>, FALSE, FALSE, "")}
    \cup {TraceOf(FALSE, TRUE, p, hasErr, hasErr, IF hasErr THEN m ELSE "") :
              p \in Payloads \cup {<<>>}, hasErr \in BOOLEAN, m \in Messages}
    \cup {TraceOf(FALSE, FALSE, <<>>, TRUE, hasMsg, IF hasMsg THEN m ELSE "") :
              hasMsg \in BOOLEAN, m \in Messages}
    \cup {NoTrace}

\* ------------------------------------------------------------------- state

NoTx == [from |-> "", name |-> "", args |-> <<>>, gas |-> 0]

Init ==
    /\ abiFile \in [NameSet -> AbiStates]
    /\ binFile \in [NameSet -> BinStates]
    /\ registry = Absent
    /\ chain = <<>>
    /\ run = 1
    /\ pc = "connect"
    /\ cur = 1
    /\ handles = [n \in NameSet |-> NoAddress]
    /\ tx_build = NoTx
    /\ tx_hash = 0
    /\ trace = NoTrace
    /\ console = <<>>
    /\ exitStatus = -1

\* The process ends with the given status after printing the given lines.
Exit(status, lines) ==
    /\ pc' = "exited"
    /\ exitStatus' = status
    /\ console' = console \o lines

\* Mutant of Fatal: the handler prints and deploy_contract returns, so main()
\* goes on with the calls that follow.
Fatal_NoExit(lines) ==
    /\ pc' = "read_back"
    /\ console' = console \o lines \o <<Line("fatal_error", <<>>)>>
    /\ UNCHANGED exitStatus

\* deploy.py:96-98: except Exception -> print FATAL ERROR, exit(1)
Fatal(lines) ==
    Exit(SystemExitStatus(<<FatalStatus>>), lines \o <<Line("fatal_error", <<>>)>>)

\* An exception raised outside every try block: traceback, status 1.
Uncaught(lines) ==
    Exit(UncaughtExceptionStatus, lines \o <<Line("traceback", <<>>)>>)

\* --------------------------------------------- module level (deploy.py:7-18)

\* w3.eth.accounts raises when the node cannot be reached (line 10, before the
\* connection check); is_connected() returning False reaches exit() (line 14).
Connect ==
    /\ pc = "connect"
    /\ \/ Uncaught(<<>>)
       \/ Exit(SystemExitStatus(<<>>), <<Line("not_connected", <<>>)>>)
       \/ /\ pc' = "load_abi"
          /\ console' = console \o <<Line("connected", <<>>)>>
          /\ UNCHANGED exitStatus
    /\ UNCHANGED <<env, registry, chain, run, cur, handles, tx_build, tx_hash, trace>>

\* --------------------------------------- load_contract_artifact (21-53)

\* deploy.py:26-41: the descriptor build/<name>.json
LoadAbi ==
    /\ pc = "load_abi"
    /\ LET name == Names[cur]
           loading == <<Line("loading", name)>>
       IN  CASE abiFile[name] = "missing" ->
                    Exit(SystemExitStatus(<<>>), loading \o <<Line("abi_not_found", name)>>)
             [] abiFile[name] = "malformed" ->
                    Exit(SystemExitStatus(<<>>), loading \o <<Line("abi_not_json", name)>>)
             [] abiFile[name] = "unreadable" ->
                    Uncaught(loading)
             [] OTHER ->
                    /\ pc' = "load_bin"
                    /\ console' = console \o loading \o <<Line("abi_loaded", name)>>
                    /\ UNCHANGED exitStatus
    /\ UNCHANGED <<env, registry, chain, run, cur, handles, tx_build, tx_hash, trace>>

\* Mutant of LoadBin: a missing bytecode file is reported and the load returns.
LoadBin_Continue ==
    /\ pc = "load_bin"
    /\ pc' = "new_contract"
    /\ console' = console \o <<Line("bin_loaded", Names[cur])>>
    /\ UNCHANGED <<env, registry, chain, run, cur, handles, tx_build, tx_hash,
                   trace, exitStatus>>

\* deploy.py:43-53: the bytecode build/<name>.bin
LoadBin ==
    /\ pc = "load_bin"
    /\ LET name == Names[cur]
       IN  IF binFile[name] = "missing"
           THEN Exit(SystemExitStatus(<<>>), <<Line("bin_not_found", name)>>)
           ELSE /\ pc' = "new_contract"
                /\ console' = console \o <<Line("bin_loaded", name)>>
                /\ UNCHANGED exitStatus
    /\ UNCHANGED <<env, registry, chain, run, cur, handles, tx_build, tx_hash, trace>>

\* ----------------------------------------------- deploy_contract (55-98)

\* Mutant of ConstructorArgs: each contract is given the address of the one
\* deployed just before it.
ConstructorArgs_Previous(i) ==
    IF i = 1 THEN <<initial_supply>>
    ELSE <<handles[Names[i - 1]], default_account>>

\* The constructor arguments main() passes for the contract at index i
\* (deploy.py:107, 119, 129).
ConstructorArgs(i) ==
    IF i = 1 THEN <<initial_supply>>
    ELSE <<handles[Names[1]], default_account>>

\* deploy.py:59-60: the contract factory is made outside the try block; a
\* descriptor that is JSON but no ABI raises there.
NewContract ==
    /\ pc = "new_contract"
    /\ LET name == Names[cur]
       IN  IF abiFile[name] = "invalid_abi"
           THEN Uncaught(<<>>)
           ELSE /\ pc' = "estimate"
                /\ console' = console \o <<Line("deploying", name)>>
                /\ UNCHANGED exitStatus
    /\ UNCHANGED <<env, registry, chain, run, cur, handles, tx_build, tx_hash, trace>>

\* deploy.py:63-67: build_transaction, estimate_gas, the gas buffer
EstimateGas ==
    /\ pc = "estimate"
    /\ \/ /\ Fatal(<<>>)
          /\ UNCHANGED tx_build
       \/ \E estimated_gas \in GasEstimates :
            /\ tx_build' = [from |-> default_account, name |-> Names[cur],
                            args |-> ConstructorArgs(cur),
                            gas |-> estimated_gas + GasBuffer]
            /\ pc' = "send"
            /\ console' = console \o <<Line("estimated", Names[cur])>>
            /\ UNCHANGED exitStatus
    /\ UNCHANGED <<env, registry, chain, run, cur, handles, tx_hash, trace>>

\* The transaction as the node holds it: no receipt yet.
Submitted(tx) ==
    [run |-> run, from |-> tx.from, name |-> tx.name, args |-> tx.args,
     gas |-> tx.gas, mined |-> FALSE, status |-> 0, contractAddress |-> NoAddress]

\* deploy.py:69-71: send_transaction
SendTransaction ==
    /\ pc = "send"
    /\ \/ /\ Fatal(<<>>)
          /\ UNCHANGED <<chain, tx_hash>>
       \/ /\ chain' = Append(chain, Submitted(tx_build))
          /\ tx_hash' = Len(chain) + 1
          /\ pc' = "wait"
          /\ console' = console \o <<Line("sent", Names[cur])>>
          /\ UNCHANGED exitStatus
    /\ UNCHANGED <<env, registry, run, cur, handles, tx_build, trace>>

\* The node mines a transaction: the creation succeeds at a fresh address (one
\* per transaction of the chain), or it reverts.
Mine ==
    \E i \in 1..Len(chain) :
        /\ ~chain[i].mined
        /\ \/ chain' = [chain EXCEPT ![i].mined = TRUE, ![i].status = 1,
                                     ![i].contractAddress = i]
           \/ chain' = [chain EXCEPT ![i].mined = TRUE, ![i].status = 0]
        /\ UNCHANGED <<env, registry, run, pc, cur, handles, tx_build, tx_hash,
                       trace, console, exitStatus>>

\* Mutant of WaitTimeout: the transaction is sent again when the wait gives up.
WaitTimeout_Retry ==
    /\ pc = "wait"
    /\ ~chain[tx_hash].mined
    /\ pc' = "send"
    /\ UNCHANGED <<env, registry, chain, run, cur, handles, tx_build, tx_hash,
                   trace, console, exitStatus>>

\* deploy.py:72: wait_for_transaction_receipt gives up (TimeExhausted)
WaitTimeout ==
    /\ pc = "wait"
    /\ ~chain[tx_hash].mined
    /\ Fatal(<<>>)
    /\ UNCHANGED <<env, registry, chain, run, cur, handles, tx_build, tx_hash, trace>>

\* deploy.py:74-91, 96-98: the receipt has status 0
Reverted(t) ==
    /\ trace' = t
    /\ Fatal(<<Line("reverted", Names[cur])>> \o DiagnosticOutput(t)
             \o <<Line("raised", <<>>)>>)
    /\ UNCHANGED handles

\* deploy.py:93-95: the handle bound to the receipt's contractAddress
Deployed(tx_receipt) ==
    /\ handles' = [handles EXCEPT ![Names[cur]] = tx_receipt.contractAddress]
    /\ pc' = "read_back"
    /\ console' = console \o <<Line("deployed", Names[cur])>>
    /\ UNCHANGED <<trace, exitStatus>>

\* Mutant of WaitReceipt: the status of the receipt is not looked at.
WaitReceipt_NoStatusCheck ==
    /\ pc = "wait"
    /\ chain[tx_hash].mined
    /\ Deployed(chain[tx_hash])
    /\ UNCHANGED <<env, registry, chain, run, cur, tx_build, tx_hash>>

\* deploy.py:72-95: the receipt arrives
WaitReceipt ==
    /\ pc = "wait"
    /\ chain[tx_hash].mined
    /\ LET tx_receipt == chain[tx_hash]
       IN  IF tx_receipt.status = 0
           THEN \E t \in TraceResponses : Reverted(t)
           ELSE Deployed(tx_receipt)
    /\ UNCHANGED <<env, registry, chain, run, cur, tx_build, tx_hash>>

\* ------------------------------------------------------------ main (100-148)

\* deploy.py:108-111, 120-122, 130-132: the calls that read the deployment
\* back, outside every try block; then the next contract, or the registry.
ReadBack ==
    /\ pc = "read_back"
    /\ \/ /\ Uncaught(<<>>)
          /\ UNCHANGED cur
       \/ /\ console' = console \o <<Line("read_back", Names[cur])>>
          /\ IF cur < Len(Names)
             THEN cur' = cur + 1 /\ pc' = "load_abi"
             ELSE cur' = cur /\ pc' = "persist"
          /\ UNCHANGED exitStatus
    /\ UNCHANGED <<env, registry, chain, run, handles, tx_build, tx_hash, trace>>

\* Mutant of contract_addresses: every key is given the token's address.
contract_addresses_TokenEverywhere == [n \in NameSet |-> handles[Names[1]]]

\* deploy.py:140-144
contract_addresses == [n \in NameSet |-> handles[n]]

\* Mutant of PersistRegistry: the registry is written as soon as a deployment
\* has returned its handle.
PersistRegistry_Early ==
    /\ pc \in {"read_back", "persist"}
    /\ registry' = JsonDump(contract_addresses)
    /\ pc' = "done"
    /\ exitStatus' = 0
    /\ console' = console \o <<Line("saved", <<>>)>>
    /\ UNCHANGED <<env, chain, run, cur, handles, tx_build, tx_hash, trace>>

\* Mutant of PersistRegistry: an existing registry file is kept.
PersistRegistry_KeepExisting ==
    /\ pc = "persist"
    /\ registry' = IF registry = Absent THEN JsonDump(contract_addresses) ELSE registry
    /\ pc' = "done"
    /\ exitStatus' = 0
    /\ console' = console \o <<Line("saved", <<>>)>>
    /\ UNCHANGED <<env, chain, run, cur, handles, tx_build, tx_hash, trace>>

\* deploy.py:134-148: the registry is written, main() returns
PersistRegistry ==
    /\ pc = "persist"
    /\ registry' = JsonDump(contract_addresses)
    /\ pc' = "done"
    /\ exitStatus' = 0
    /\ console' = console \o <<Line("saved", <<>>)>>
    /\ UNCHANGED <<env, chain, run, cur, handles, tx_build, tx_hash, trace>>

\* deploy.py:150-151: the script is started again; the node and the files stay.
Restart ==
    /\ pc \in {"done", "exited"}
    /\ run < MaxRuns
    /\ run' = run + 1
    /\ pc' = "connect"
    /\ cur' = 1
    /\ handles' = [n \in NameSet |-> NoAddress]
    /\ tx_build' = NoTx
    /\ tx_hash' = 0
    /\ trace' = NoTrace
    /\ console' = <<>>
    /\ exitStatus' = -1
    /\ UNCHANGED <<env, registry, chain>>

Next ==
    \/ Connect
    \/ LoadAbi
    \/ LoadBin
    \/ NewContract
    \/ EstimateGas
    \/ SendTransaction
    \/ Mine
    \/ WaitTimeout
    \/ WaitReceipt
    \/ ReadBack
    \/ PersistRegistry
    \/ Restart

Spec == Init /\ [][Next]_vars

\* ================================================================== claims

\* The transactions the node was sent by run r for the contract n.
TxsOf(r, n) == {i \in 1..Len(chain) : chain[i].run = r /\ chain[i].name = n}

TxsOfRun(r) == {i \in 1..Len(chain) : chain[i].run = r}

\* The transaction has a receipt with status = success.
Succeeded(i) == chain[i].mined /\ chain[i].status = 1

\* The running script has printed a line with this tag about this contract.
Printed(tag, n) ==
    \E k \in 1..Len(console) : console[k].tag = tag /\ console[k].arg = n

PrintedTag(tag) == \E k \in 1..Len(console) : console[k].tag = tag

TimesPrinted(tag, n) ==
    Cardinality({k \in 1..Len(console) : console[k].tag = tag /\ console[k].arg = n})

LastLine == console[Len(console)]

\* The keys of the registry file.
Keys(file) == {e[1] : e \in file.entries}

\* The addresses the registry file holds.
Addresses(file) == {e[2] : e \in file.entries}

\* C1: a creation transaction for DataReview or DataBundle is on the node only
\* if, earlier in the same run, the MyToken creation transaction was sent and
\* has a receipt with status = success.
C1_DependentsAfterTokenSuccess ==
    \A i \in 1..Len(chain) :
        chain[i].name \in {"DataReview", "DataBundle"} =>
            \E j \in 1..(i - 1) :
                /\ chain[j].run = chain[i].run
                /\ chain[j].name = "MyToken"
                /\ Succeeded(j)

C1_Witness ==
    \E i \in 1..Len(chain) : chain[i].name = "DataBundle" /\ chain[i].run = run

\* C2: a contract's artifacts are loaded, and its transaction sent, only when
\* the contract before it in the order token, review, bundle was deployed with
\* success in this run; and once the run has ended in failure it loads nothing,
\* prints nothing, sends nothing and stays ended until the script is started again.
C2_AttemptedOnlyAfterSuccess ==
    \A k \in 2..Len(Names) :
        (Printed("loading", Names[k]) \/ TxsOf(run, Names[k]) # {}) =>
            /\ handles[Names[k - 1]] # NoAddress
            /\ \E j \in TxsOf(run, Names[k - 1]) : Succeeded(j)

C2_FailureIsFinal ==
    pc = "exited" =>
        \/ run' = run + 1
        \/ /\ pc' = "exited"
           /\ console' = console
           /\ Len(chain') = Len(chain)

\* C2: both parts, in every state and every step of every run.
C2_ShortCircuit == []C2_AttemptedOnlyAfterSuccess /\ [][C2_FailureIsFinal]_vars

\* A failure of the first deployment (a revert), after which the script is ended.
C2_Witness ==
    /\ pc = "exited"
    /\ Printed("reverted", "MyToken")
    /\ ~Printed("loading", "DataReview")

\* C3: when a run has completed, every handle has an address, and the registry
\* has exactly the keys MyToken, DataReview and DataBundle, each mapped to the
\* contractAddress of the successful receipt of that contract's one
\* transaction of this run.
C3_RegistryOfCompletedRun ==
    pc = "done" =>
        /\ registry.exists
        /\ Keys(registry) = {"MyToken", "DataReview", "DataBundle"}
        /\ Cardinality(registry.entries) = 3
        /\ \A n \in NameSet :
            /\ handles[n] # NoAddress
            /\ \E i \in TxsOf(run, n) :
                /\ Succeeded(i)
                /\ chain[i].contractAddress # NoAddress
                /\ <<n, chain[i].contractAddress>> \in registry.entries
                /\ \A m \in NameSet \ {n} :
                       <<m, chain[i].contractAddress>> \notin registry.entries

C3_Witness == pc = "done" /\ registry.exists /\ run = 1

\* C4: the registry file changes only in the step that ends a run with
\* success, after the three deployments of the run have succeeded and each has
\* been read back; a step that ends the run in failure leaves it as it was; and
\* the file never holds fewer than three addresses.
C4_RegistryNeverPartial ==
    registry.exists =>
        /\ Keys(registry) = NameSet
        /\ Cardinality(registry.entries) = Len(Names)
        /\ NoAddress \notin Addresses(registry)

C4_WrittenOnlyOnFullSuccess ==
    /\ registry' # registry =>
        /\ pc = "persist"
        /\ pc' = "done"
        /\ \A n \in NameSet :
            /\ \E i \in TxsOf(run, n) : Succeeded(i)
            /\ Printed("read_back", n)
    /\ pc' = "exited" => registry' = registry

C5_ErrorExitIsNonZero == pc = "exited" => exitStatus # 0

\* C6: a contract whose descriptor is missing or is not JSON, or whose bytecode
\* file is missing, never gets past load_contract_artifact: no factory, no gas
\* estimate and no transaction is ever made for it, its load is started at
\* most once in a run, and the run is ended as soon as the load has failed.
ArtifactUnloadable(n) ==
    \/ abiFile[n] \in {"missing", "malformed"}
    \/ binFile[n] = "missing"

C6_LoadFailureHaltsBeforeNetwork ==
    \A n \in NameSet :
        ArtifactUnloadable(n) =>
            /\ \A i \in 1..Len(chain) : chain[i].name # n
            /\ ~Printed("deploying", n)
            /\ ~Printed("estimated", n)
            /\ ~Printed("sent", n)
            /\ TimesPrinted("loading", n) <= 1
            /\ Names[cur] = n => pc \in {"connect", "load_abi", "load_bin", "exited"}
            /\ (Printed("abi_not_found", n) \/ Printed("abi_not_json", n)
                    \/ Printed("bin_not_found", n)) => pc = "exited"

\* The load of DataReview has failed on its bytecode file, after MyToken was
\* deployed.
C6_Witness ==
    /\ pc = "exited"
    /\ Printed("bin_not_found", "DataReview")
    /\ Printed("abi_loaded", "DataReview")
    /\ TxsOf(run, "MyToken") # {}

\* C7: the step that completes a run writes to the registry the addresses of
\* three transactions this run has sent, all of them sent after every
\* transaction of the runs before; when a registry of an earlier run is
\* there, it is replaced, and no address of the new registry is one of the old.
C7_CompletingStep ==
    (pc = "persist" /\ pc' = "done") =>
        /\ Cardinality(TxsOfRun(run)) = 3
        /\ \A n \in NameSet : \E i \in TxsOf(run, n) :
               /\ <<n, chain[i].contractAddress>> \in registry'.entries
               /\ \A j \in 1..Len(chain) : chain[j].run < run => j < i
        /\ Cardinality(registry'.entries) = 3
        /\ Addresses(registry') \cap Addresses(registry) = {}
        /\ \A j \in 1..Len(chain) :
               chain[j].run < run => chain[j].contractAddress \notin Addresses(registry')

\* C7: every step that completes a run is such a step.
C7_RerunRedeploysEverything == [][C7_CompletingStep]_vars

\* The second run has completed after a first run that deployed all three
\* contracts: six deployments, the registry holding those of the second run.
C7_Witness ==
    /\ pc = "done"
    /\ run = 2
    /\ \A n \in NameSet : \E i \in TxsOf(1, n) : Succeeded(i)
    /\ \A n \in NameSet : \E i \in TxsOf(2, n) :
           Succeeded(i) /\ <<n, chain[i].contractAddress>> \in registry.entries

\* ----------------------------------------------------------------------- C8

\* The run has ended in the handler of a receipt with status 0.
RevertHandled == pc = "exited" /\ PrintedTag("reverted")

\* What the claim reads in the trace.
PayloadNonEmpty == ~trace.raises /\ trace.hasReturnValue /\ trace.returnValue # <<>>
PayloadIsErrorString == PayloadNonEmpty /\ StartsWith(trace.returnValue, ErrorSelector)
ErrorMessageOnly ==
    ~trace.raises /\ ~PayloadNonEmpty /\ trace.hasError /\ trace.hasMessage

\* The characters after the selector are pairs of hexadecimal digits.
TailIsHex ==
    LET tail == SubSeq(trace.returnValue, 11, Len(trace.returnValue))
    IN  /\ Len(tail) % 2 = 0
        /\ \A i \in 1..Len(tail) : tail[i] \in HexDigits

\* However the diagnostic went, the deployment has failed: FATAL ERROR is the
\* last line, the status is 1 and the contract has no handle.
C8_FailsFatally ==
    /\ LastLine.tag = "fatal_error"
    /\ exitStatus = 1
    /\ handles[Names[cur]] = NoAddress

C8_FallbackOutput ==
    /\ PrintedTag("raw_revert_data") <=> (PayloadNonEmpty /\ ~PayloadIsErrorString)
    /\ PrintedTag("raw_revert_data") => Printed("raw_revert_data", trace.returnValue)
    /\ PrintedTag("error_message") <=> ErrorMessageOnly
    /\ PrintedTag("error_message") => Printed("error_message", trace.message)

\* C8 as claimed: after a receipt with status 0 a decoded revert reason is
\* printed if and only if the payload is non-empty and starts with 0x08c379a0.
C8_Original_DecodedIffSelector ==
    RevertHandled =>
        /\ PrintedTag("revert_reason") <=> PayloadIsErrorString
        /\ C8_FallbackOutput
        /\ C8_FailsFatally

\* C8 as amended: after a receipt with status 0 a decoded revert reason is
\* printed if and only if the payload is non-empty, starts with 0x08c379a0 and
\* continues with pairs of hexadecimal digits; when it starts with the selector
\* and continues otherwise, the decoding raises and only the failure of the
\* diagnostic is printed.  The reason printed is the bytes after the selector,
\* NULs stripped from both ends.  The fall-backs and the fatal failure are as
\* claimed.
C8_DecodedIffSelectorAndHex ==
    RevertHandled =>
        /\ PrintedTag("revert_reason") <=> (PayloadIsErrorString /\ TailIsHex)
        /\ (PayloadIsErrorString /\ ~TailIsHex) =>
               (PrintedTag("trace_failed") /\ ~PrintedTag("raw_revert_data")
                    /\ ~PrintedTag("error_message"))
        /\ trace.returnValue = PayloadHi => Printed("revert_reason", <<72, 105>>)
        /\ trace.returnValue = PayloadPadded => Printed("revert_reason", <<72>>)
        /\ trace.returnValue = ErrorSelector => Printed("revert_reason", <<>>)
        /\ C8_FallbackOutput
        /\ C8_FailsFatally

\* A revert whose payload has the selector and then text that is no hex.
C8_Witness ==
    /\ RevertHandled
    /\ trace.returnValue = PayloadOddHex
    /\ PrintedTag("trace_failed")

\* ----------------------------------------------------------------------- C9

\* 1_000_000 * 10^18 = 10^24, written out.
TenToThe24 == <<1, 0, 0, 0, 0, 0, 0, 0, 0, 0, 0, 0, 0, 0, 0, 0, 0, 0, 0, 0, 0, 0, 0, 0, 0>>

\* C9: every MyToken transaction carries the one argument 10^24; every
\* DataReview and DataBundle transaction carries (address of the successful
\* receipt of the MyToken transaction of its run, the sender's account); the
\* transactions are sent from that account; and the registry of a completed run
\* has that same token address under MyToken.
C9_AddressThreading ==
    /\ \A i \in 1..Len(chain) :
        /\ chain[i].from = default_account
        /\ chain[i].name = "MyToken" => chain[i].args = <<TenToThe24>>
        /\ chain[i].name \in {"DataReview", "DataBundle"} =>
            \E j \in TxsOf(chain[i].run, "MyToken") :
                /\ Succeeded(j)
                /\ chain[j].contractAddress # NoAddress
                /\ chain[i].args = <<chain[j].contractAddress, "account0">>
    /\ pc = "done" =>
        \A i \in TxsOf(run, "DataReview") \cup TxsOf(run, "DataBundle") :
            <<"MyToken", chain[i].args[1]>> \in registry.entries

C9_Witness ==
    /\ pc = "done"
    /\ \E i \in TxsOf(run, "DataReview"), j \in TxsOf(run, "DataBundle") :
           chain[i].args = chain[j].args

\* ---------------------------------------------------------------------- C10

\* C10: a run sends at most one transaction per contract; it sends one only
\* when every transaction it sent before has its receipt; each stage of a
\* contract is started at most once in a run; and a run that has ended stays
\* ended.
C10_AtMostOnce ==
    /\ \A r \in 1..run : \A n \in NameSet : Cardinality(TxsOf(r, n)) <= 1
    /\ \A r \in 1..run : Cardinality(TxsOfRun(r)) <= 3
    /\ \A n \in NameSet :
        /\ TimesPrinted("loading", n) <= 1
        /\ TimesPrinted("deploying", n) <= 1
        /\ TimesPrinted("estimated", n) <= 1
        /\ TimesPrinted("sent", n) <= 1

C10_OneAtATime ==
    /\ Len(chain') > Len(chain) =>
        /\ Len(chain') = Len(chain) + 1
        /\ \A i \in TxsOfRun(run) : chain[i].mined
    /\ pc \in {"exited", "done"} => (pc' = pc \/ run' = run + 1)

\* C10: both parts, in every state and every step of every run.
C10_NoRetrySequential == []C10_AtMostOnce /\ [][C10_OneAtATime]_vars

\* A run has sent its third transaction, the two before it mined.
C10_Witness ==
    /\ Cardinality(TxsOfRun(run)) = 3
    /\ \E i \in TxsOfRun(run) : ~chain[i].mined

====
